---- MODULE Spec2Model ----
(***************************************************************************)
(* PodGo: the batch fetch-and-reconcile pipeline of src/main.go            *)
(* (processFeedsInBatches / processBatch / processFeedURL / processFeed /  *)
(* processEpisodes) and the slug generator (TitleUrl / GetTitleUrl),       *)
(* specification Spec; and the one-shot import src/main.go also holds      *)
(* (its second package main, lines 421-649: every feed is loaded by a      *)
(* goroutine of its own and both collections are dropped and rewritten),   *)
(* specification SpecLegacy.                                               *)
(*                                                                         *)
(* Strings are sequences of one-character strings, so that TitleUrl is     *)
(* computed character by character as the code computes it.                *)
(***************************************************************************)
EXTENDS Integers, Sequences, FiniteSets, TLC

(***************************************************************************)
(* Program constants.                                                      *)
(***************************************************************************)
\* batchSize := 10 in processFeedsInBatches
batchSize == 10

\* semaphore := make(chan struct{}, 3) in processBatch
semaphoreCap == 3

\* regexp `-{2,10}` in TitleUrl: the longest run of hyphens one match takes
hyphenRunMax == 10

(***************************************************************************)
(* Bounds of the model.                                                    *)
(***************************************************************************)
\* longest URL list made of arbitrary URLs (they make one slice)
MaxUrls == 2

\* how many times GetTitleUrl is called with one title
MaxCalls == 3

(***************************************************************************)
(* Strings.                                                                *)
(***************************************************************************)
LowerLetters ==
    <<"a","b","c","d","e","f","g","h","i","j","k","l","m",
      "n","o","p","q","r","s","t","u","v","w","x","y","z">>

UpperLetters ==
    <<"A","B","C","D","E","F","G","H","I","J","K","L","M",
      "N","O","P","Q","R","S","T","U","V","W","X","Y","Z">>

Digits == {"0","1","2","3","4","5","6","7","8","9"}

Range(s) == {s[n] : n \in DOMAIN s}

\* strings.ToLower on one character (ASCII letters and the German umlauts)
ToLowerChar(c) ==
    IF \E n \in DOMAIN UpperLetters : UpperLetters[n] = c
    THEN LowerLetters[CHOOSE n \in DOMAIN UpperLetters : UpperLetters[n] = c]
    ELSE CASE c = "Ä" -> "ä"
           [] c = "Ö" -> "ö"
           [] c = "Ü" -> "ü"
           [] OTHER -> c

\* strings.ToLower
ToLower(s) == [n \in DOMAIN s |-> ToLowerChar(s[n])]

\* strings.NewReplacer("ä", "ae", "ö", "oe", "ü", "ue", "ß", "ss") on one character
ReplaceChar(c) ==
    CASE c = "ä" -> <<"a","e">>
      [] c = "ö" -> <<"o","e">>
      [] c = "ü" -> <<"u","e">>
      [] c = "ß" -> <<"s","s">>
      [] OTHER -> <<c>>

RECURSIVE ReplaceUmlauts(_)
\* strings.NewReplacer(...).Replace
ReplaceUmlauts(s) ==
    IF s = <<>> THEN <<>> ELSE ReplaceChar(Head(s)) \o ReplaceUmlauts(Tail(s))

\* the character class [a-zA-Z0-9 ]
IsAlnumOrSpace(c) ==
    c \in Range(LowerLetters) \cup Range(UpperLetters) \cup Digits \cup {" "}

\* regexp `[^a-zA-Z0-9 ]` replaced by ""
StripOthers(s) == SelectSeq(s, IsAlnumOrSpace)

RECURSIVE SpacesToHyphen(_)
\* regexp ` +` replaced by "-": every maximal run of spaces becomes one hyphen
SpacesToHyphen(s) ==
    IF s = <<>> THEN <<>>
    ELSE IF Head(s) = " "
         THEN IF Len(s) > 1 /\ s[2] = " "
              THEN SpacesToHyphen(Tail(s))
              ELSE <<"-">> \o SpacesToHyphen(Tail(s))
         ELSE <<Head(s)>> \o SpacesToHyphen(Tail(s))

RECURSIVE HyphenRun(_)
\* the length of the run of hyphens s starts with
HyphenRun(s) ==
    IF s # <<>> /\ Head(s) = "-" THEN 1 + HyphenRun(Tail(s)) ELSE 0

RECURSIVE CollapseHyphens(_)
\* regexp `-{2,10}` replaced by "-": leftmost, greedy, non-overlapping matches
CollapseHyphens(s) ==
    IF s = <<>> THEN <<>>
    ELSE LET r == HyphenRun(s)
             m == IF r > hyphenRunMax THEN hyphenRunMax ELSE r
         IN  IF r >= 2
             THEN <<"-">> \o CollapseHyphens(SubSeq(s, m + 1, Len(s)))
             ELSE <<Head(s)>> \o CollapseHyphens(Tail(s))

\* url.PathEscape on one character: unreserved characters and the sub-delimiters
\* a path segment may hold stay, every other character becomes %XX
PathEscapeChar(c) ==
    IF c \in Range(LowerLetters) \cup Range(UpperLetters) \cup Digits
             \cup {"-", "_", ".", "~", "$", "&", "+", "=", ":", "@"}
    THEN <<c>>
    ELSE CASE c = " " -> <<"%","2","0">>
           [] c = "!" -> <<"%","2","1">>
           [] c = "%" -> <<"%","2","5">>
           [] c = "/" -> <<"%","2","F">>
           [] OTHER -> <<"%","X","X">>

RECURSIVE PathEscape(_)
\* url.PathEscape
PathEscape(s) ==
    IF s = <<>> THEN <<>> ELSE PathEscapeChar(Head(s)) \o PathEscape(Tail(s))

\* TitleUrl (slugify)
TitleUrl(title) ==
    PathEscape(CollapseHyphens(SpacesToHyphen(StripOthers(ReplaceUmlauts(ToLower(title))))))

\* a GetTitleUrl that looks its slug up once
AppendXOnce(t, otherPodcasts) ==
    IF t \in otherPodcasts THEN Append(t, "x") ELSE t

RECURSIVE AppendX(_, _)
\* the loop of GetTitleUrl: for otherPodcasts[t] { t += "x" }
AppendX(t, otherPodcasts) ==
    IF t \in otherPodcasts THEN AppendX(Append(t, "x"), otherPodcasts) ELSE t

\* GetTitleUrl (uniqueSlug) on a map no other goroutine touches
GetTitleUrl(title, otherPodcasts) == AppendX(TitleUrl(title), otherPodcasts)

(***************************************************************************)
(* The feeds the URLs of the run resolve to (gofeed's parse of each URL).  *)
(* A feed: title, FeedLink as parsed ("" when the feed carries no          *)
(* self-link), desc (its categories, link and description taken together), *)
(* itunes (the subtitle, author and image of its iTunes extension taken    *)
(* together, "none" when ITunesExt is nil) and its items (GUID, title, and *)
(* whether the item carries the iTunes extension).                         *)
(***************************************************************************)
News == <<"N","e","w","s">>

MyShow == <<"M","y"," ","S","h","o","w">>

Ep == <<"E","p">>

\* URLs gofeed can fetch and parse
LiveURLs == {"a", "b", "c"}

\* a URL whose fetch always fails (no such host)
DeadURL == "z"

URLs == LiveURLs \cup {DeadURL}

\* the URLs in the order the lists of the model keep
URLOrder == <<"a", "b", "c", "z">>

URLRank(u) == CHOOSE n \in DOMAIN URLOrder : URLOrder[n] = u

Item(g, x, ttl) == [guid |-> g, ext |-> x, title |-> ttl]

ParsedFeed(u) ==
    CASE u = "a" -> [title |-> News, link |-> "", desc |-> "d1", itunes |-> "i1",
                     items |-> <<Item("g1", TRUE, Ep), Item("g2", TRUE, Ep)>>]
      [] u = "b" -> [title |-> MyShow, link |-> "a", desc |-> "d2", itunes |-> "none",
                     items |-> <<Item("g2", TRUE, Ep), Item("g3", FALSE, Ep)>>]
      [] u = "c" -> [title |-> News, link |-> "c", desc |-> "d3", itunes |-> "i3",
                     items |-> <<Item("g4", FALSE, Ep), Item("g5", TRUE, Ep),
                                 Item("g5", TRUE, News)>>]

\* a LoadFeed that returns the feed as parsed
LoadFeedAsParsed(u) == ParsedFeed(u)

\* LoadFeed on success: the parsed feed, its FeedLink set to the URL when empty
LoadFeed(u) ==
    LET f == ParsedFeed(u)
    IN  IF f.link = "" THEN [f EXCEPT !.link = u] ELSE f

(***************************************************************************)
(* State.                                                                  *)
(***************************************************************************)
VARIABLES
    feeds,                  \* the URL list read from the JSON file
    podcasts,               \* the "podcasts" collection (a set of documents)
    episodes,               \* the "episodes" collection (a set of documents)
    existingPodcastFeeds,   \* the feed-URL index (map[string]bool)
    podcastTitles,          \* the podcast-slug index (map[string]bool)
    mainpc,                 \* position of main ("crashed": the runtime ended the
                            \* process with a fatal error)
    lo,                     \* i of processFeedsInBatches: start of the slice
    nxt,                    \* next position of the slice processBatch launches
    wg,                     \* the WaitGroup counter of processBatch
    semaphore,              \* number of tokens in the semaphore channel
    pc,                     \* position of the goroutine of each list position
    slug,                   \* its t of GetTitleUrl / pTitleUrl of processFeed
    podcast,                \* its podcast of processFeed
    newEpisodes,            \* its newEpisodes of processEpisodes
    ret,                    \* what its processFeed returned
    fetched,                \* what its LoadFeed returned
    storeErr,               \* whether a store operation of it returned an error
    podcastList,            \* one-shot import: var podcasts []interface{}
    episodeList,            \* one-shot import: var episodes []interface{}
    received,               \* one-shot import: i of the loop that receives from cf
    expired,                \* whether the deadline of main's ctx (600 s) has passed
    callTitle,              \* slug generator alone: the title GetTitleUrl is called with
    version,                \* slug generator alone: which GetTitleUrl is called, the
                            \* one of lines 92-98 ("map") or of lines 506-513 ("slice")
    usedSlugs,              \* slug generator alone: its otherPodcasts
    chain                   \* slug generator alone: what the calls so far returned

vars == <<feeds, podcasts, episodes, existingPodcastFeeds, podcastTitles,
          mainpc, lo, nxt, wg, semaphore, pc, slug, podcast, newEpisodes,
          ret, fetched, storeErr, podcastList, episodeList, received,
          expired, callTitle, version, usedSlugs, chain>>

slugs == <<callTitle, version, usedSlugs, chain>>

legacy == <<podcastList, episodeList, received>>

store == <<podcasts, episodes>>

indices == <<existingPodcastFeeds, podcastTitles>>

sched == <<mainpc, lo, nxt, wg>>

Pos == DOMAIN feeds

\* the zero ObjectID. An ObjectID is <<r, k, n>>: r is 0 for a document of an
\* earlier run and 1 for one of this run, k is the list position of the
\* goroutine that inserted it and n numbers the documents of one insert
NoID == <<0, 0, 0>>

\* the ObjectID of the n-th document goroutine k inserts in one operation
ObjectID(k, n) == <<1, k, n>>

\* the documents of this run in collection coll
OfThisRun(coll) == {d \in coll : d.id[1] = 1}

\* var podcast Podcast
NoPodcast == [id |-> NoID]

\* the feed the goroutine of position k holds after its LoadFeed succeeded
FeedOf(k) == LoadFeed(feeds[k])

RECURSIVE SeqsUpTo(_, _)
\* the sequences over S of length 0..n
SeqsUpTo(S, n) ==
    IF n = 0 THEN {<<>>}
    ELSE LET shorter == SeqsUpTo(S, n - 1)
         IN  shorter \cup {Append(q, x) : q \in {r \in shorter : Len(r) = n - 1}, x \in S}

\* the URL lists of at most MaxUrls URLs. The goroutines of a slice run in any
\* order, the order of the list only decides the order they are started in:
\* the lists are taken in non-decreasing URL order
ShortLists ==
    {q \in SeqsUpTo(URLs, MaxUrls) \ {<<>>} :
        \A n \in 1..(Len(q) - 1) : URLRank(q[n]) <= URLRank(q[n + 1])}

\* the URL list of one full slice of unreachable URLs and a second slice of one
\* URL
LongLists == {[n \in 1..batchSize |-> DeadURL] \o <<"a">>}

\* a store left by an earlier run: the podcast of feed "a" and its episode g1
StoredPodcast ==
    [id |-> <<0, 0, 1>>, title |-> News, feed |-> "a", podlistUrl |-> TitleUrl(News),
     desc |-> "d0", itunes |-> "i0", updated |-> "published"]

StoredEpisode ==
    [id |-> <<0, 0, 1>>, podcastUrl |-> TitleUrl(News), guid |-> "g1",
     podlistUrl |-> TitleUrl(Ep), title |-> Ep]

Init ==
    /\ \/ /\ feeds \in ShortLists
          /\ \/ podcasts = {} /\ episodes = {}
             \/ podcasts = {StoredPodcast} /\ episodes = {StoredEpisode}
       \/ /\ feeds \in LongLists
          /\ podcasts = {}
          /\ episodes = {}
    /\ existingPodcastFeeds = {}
    /\ podcastTitles = {}
    /\ mainpc = "load"
    /\ lo = 0
    /\ nxt = 0
    /\ wg = 0
    /\ semaphore = 0
    /\ pc = [k \in DOMAIN feeds |-> "idle"]
    /\ slug = [k \in DOMAIN feeds |-> <<>>]
    /\ podcast = [k \in DOMAIN feeds |-> NoPodcast]
    /\ newEpisodes = [k \in DOMAIN feeds |-> <<>>]
    /\ ret = [k \in DOMAIN feeds |-> "none"]
    /\ fetched = [k \in DOMAIN feeds |-> "no"]
    /\ storeErr = [k \in DOMAIN feeds |-> FALSE]
    /\ podcastList = <<>>
    /\ episodeList = <<>>
    /\ received = 0
    /\ expired = FALSE
    /\ callTitle = <<>>
    /\ version = "map"
    /\ usedSlugs = {}
    /\ chain = <<>>

(***************************************************************************)
(* main, processFeedsInBatches and processBatch.                           *)
(***************************************************************************)
\* loadExistingPodcasts: both indices are filled from the podcasts collection
LoadExistingPodcasts ==
    /\ mainpc = "load"
    /\ ~expired
    /\ existingPodcastFeeds' = {p.feed : p \in podcasts}
    /\ podcastTitles' = {p.podlistUrl : p \in podcasts}
    /\ mainpc' = "loop"
    /\ UNCHANGED <<slugs, expired, legacy, feeds, store, lo, nxt, wg, semaphore, pc, slug, podcast,
                   newEpisodes, ret, fetched, storeErr>>

\* loadExistingPodcasts: Find or cursor.All fails, log.Fatalf ends the process
LoadExistingPodcastsFails ==
    /\ mainpc = "load"
    /\ mainpc' = "fatal"
    /\ UNCHANGED <<slugs, expired, legacy, feeds, store, indices, lo, nxt, wg, semaphore, pc, slug,
                   podcast, newEpisodes, ret, fetched, storeErr>>

\* a slice that stops one URL short of batchSize
SliceEndShort(i) == IF i + batchSize > Len(feeds) THEN Len(feeds) ELSE i + batchSize - 1

\* end of the slice that starts at i (positions i+1 .. SliceEnd(i))
SliceEnd(i) == IF i + batchSize > Len(feeds) THEN Len(feeds) ELSE i + batchSize

\* the loop head of processFeedsInBatches: the next slice goes to processBatch,
\* which makes a new WaitGroup and a new semaphore
BatchStart ==
    /\ mainpc = "loop"
    /\ IF lo < Len(feeds)
       THEN /\ mainpc' = "batch"
            /\ nxt' = lo + 1
            /\ wg' = 0
            /\ semaphore' = 0
       ELSE /\ mainpc' = "done"
            /\ UNCHANGED <<nxt, wg, semaphore>>
    /\ UNCHANGED <<slugs, expired, legacy, feeds, store, indices, lo, pc, slug, podcast, newEpisodes,
                   ret, fetched, storeErr>>

\* processBatch, one iteration of its loop: wg.Add(1); go func(url)
Launch ==
    /\ mainpc = "batch"
    /\ nxt <= SliceEnd(lo)
    /\ wg' = wg + 1
    /\ pc' = [pc EXCEPT ![nxt] = "acquire"]
    /\ nxt' = nxt + 1
    /\ UNCHANGED <<slugs, expired, legacy, feeds, store, indices, mainpc, lo, semaphore, slug, podcast,
                   newEpisodes, ret, fetched, storeErr>>

\* a Wait that returns while one goroutine of the slice is still running
WaitReturnsEarly == wg <= 1

\* whether wg.Wait() may return
WaitReturns == wg = 0

\* processBatch: wg.Wait() returns; processFeedsInBatches logs the batch
Wait ==
    /\ mainpc = "batch"
    /\ nxt > SliceEnd(lo)
    /\ WaitReturns
    /\ mainpc' = "sleep"
    /\ UNCHANGED <<slugs, expired, legacy, feeds, store, indices, lo, nxt, wg, semaphore, pc, slug,
                   podcast, newEpisodes, ret, fetched, storeErr>>

\* processFeedsInBatches: time.Sleep(5s) is over; i += batchSize
Sleep ==
    /\ mainpc = "sleep"
    /\ lo' = lo + batchSize
    /\ mainpc' = "loop"
    /\ UNCHANGED <<slugs, expired, legacy, feeds, store, indices, nxt, wg, semaphore, pc, slug, podcast,
                   newEpisodes, ret, fetched, storeErr>>

(***************************************************************************)
(* The goroutine processBatch starts for list position k.                  *)
(***************************************************************************)
locals == <<slug, podcast, newEpisodes>>

\* a send that also proceeds when the buffer already holds semaphoreCap tokens
CanSendOffByOne == semaphore <= semaphoreCap

\* whether a send on the semaphore channel may proceed (its buffer is not full)
CanSend == semaphore < semaphoreCap

\* semaphore <- struct{}{}
Acquire(k) ==
    /\ pc[k] = "acquire"
    /\ CanSend
    /\ semaphore' = semaphore + 1
    /\ pc' = [pc EXCEPT ![k] = "fetch"]
    /\ UNCHANGED <<slugs, expired, legacy, feeds, store, indices, sched, locals, ret, fetched, storeErr>>

\* processFeedURL: LoadFeed returns the feed; processFeed starts and GetTitleUrl
\* computes t := TitleUrl(feed.Title)
FetchOk(k) ==
    /\ pc[k] = "fetch"
    /\ feeds[k] \in LiveURLs
    /\ fetched' = [fetched EXCEPT ![k] = "ok"]
    /\ slug' = [slug EXCEPT ![k] = TitleUrl(FeedOf(k).title)]
    /\ pc' = [pc EXCEPT ![k] = "title"]
    /\ UNCHANGED <<slugs, expired, legacy, feeds, store, indices, sched, semaphore, podcast, newEpisodes,
                   ret, storeErr>>

\* a processFeedURL that logs the error of LoadFeed and goes on to processFeed
AfterFetchErrorNoReturn == "title"

\* where processFeedURL goes when LoadFeed returned an error: it logs and returns
AfterFetchError == "exit"

\* processFeedURL: LoadFeed returns an error (parse, network, timeout)
FetchFail(k) ==
    /\ pc[k] = "fetch"
    /\ fetched' = [fetched EXCEPT ![k] = "fail"]
    /\ pc' = [pc EXCEPT ![k] = AfterFetchError]
    /\ UNCHANGED <<slugs, expired, legacy, feeds, store, indices, sched, semaphore, locals, ret, storeErr>>

\* the other goroutines that are in the middle of a write of the feed-URL index
FeedWriters(k) == {u \in Pos \ {k} : pc[u] = "addFeedW"}

\* the other goroutines that are in the middle of a write of the slug index
TitleWriters(k) == {u \in Pos \ {k} : pc[u] = "addTitleW"}

\* what a read of existingPodcastFeeds[key] by k may return: the map is not
\* locked, so a read during another goroutine's write of key sees either value
FeedIndexReads(k, key) ==
    {key \in existingPodcastFeeds} \cup {TRUE : u \in {w \in FeedWriters(k) : FeedOf(w).link = key}}

\* what a read of podcastTitles[key] by k may return
TitleIndexReads(k, key) ==
    {key \in podcastTitles} \cup {TRUE : u \in {w \in TitleWriters(k) : slug[w] = key}}

\* GetTitleUrl, one test of its loop: for otherPodcasts[t] { t += "x" }
TitleLoop(k) ==
    /\ pc[k] = "title"
    /\ \E r \in TitleIndexReads(k, slug[k]) :
          IF r
          THEN /\ slug' = [slug EXCEPT ![k] = Append(slug[k], "x")]
               /\ pc' = pc
          ELSE /\ slug' = slug
               /\ pc' = [pc EXCEPT ![k] = "check"]
    /\ UNCHANGED <<slugs, expired, legacy, feeds, store, indices, sched, semaphore, podcast, newEpisodes,
                   ret, fetched, storeErr>>

\* createNewPodcast: the Podcast of a feed (its _id is assigned by the store)
createNewPodcast(feed, pTitleUrl) ==
    [id |-> NoID, title |-> feed.title, feed |-> feed.link, podlistUrl |-> pTitleUrl,
     desc |-> feed.desc, itunes |-> IF feed.itunes # "none" THEN feed.itunes ELSE "",
     updated |-> "published"]

\* processFeed: if existingPodcastFeeds[feed.FeedLink]
CheckFeed(k) ==
    /\ pc[k] = "check"
    /\ \E r \in FeedIndexReads(k, FeedOf(k).link) :
          IF r
          THEN /\ pc' = [pc EXCEPT ![k] = "findOne"]
               /\ podcast' = podcast
          ELSE /\ pc' = [pc EXCEPT ![k] = "insert"]
               /\ podcast' = [podcast EXCEPT ![k] = createNewPodcast(FeedOf(k), slug[k])]
    /\ UNCHANGED <<slugs, expired, legacy, feeds, store, indices, sched, semaphore, slug, newEpisodes,
                   ret, fetched, storeErr>>

\* the documents of the podcasts collection whose feed is link
PodcastsByFeed(link) == {p \in podcasts : p.feed = link}

\* processFeed: FindOne({"feed": feed.FeedLink}).Decode(&podcast) succeeds; of
\* several matching documents the store returns the first in its natural order,
\* which is any of them
FindOneOk(k) ==
    /\ pc[k] = "findOne"
    /\ \E p \in PodcastsByFeed(FeedOf(k).link) :
          podcast' = [podcast EXCEPT ![k] = p]
    /\ pc' = [pc EXCEPT ![k] = "update"]
    /\ UNCHANGED <<slugs, expired, legacy, feeds, store, indices, sched, semaphore, slug, newEpisodes,
                   ret, fetched, storeErr>>

\* processFeed: FindOne fails (no document, or a store error): the error is returned
FindOneFail(k) ==
    /\ pc[k] = "findOne"
    /\ storeErr' = [storeErr EXCEPT ![k] = TRUE]
    /\ ret' = [ret EXCEPT ![k] = "err"]
    /\ pc' = [pc EXCEPT ![k] = "exit"]
    /\ UNCHANGED <<slugs, expired, legacy, feeds, store, indices, sched, semaphore, locals, fetched>>

\* a $set that also writes the title and the slug of the fetched feed
UpdatedPodcastRetitled(p, feed) ==
    [p EXCEPT !.title = feed.title,
              !.podlistUrl = TitleUrl(feed.title),
              !.desc = feed.desc,
              !.itunes = IF feed.itunes # "none" THEN feed.itunes ELSE @,
              !.updated = "now"]

\* the $set of updatePodcast applied to document p
UpdatedPodcast(p, feed) ==
    [p EXCEPT !.desc = feed.desc,
              !.itunes = IF feed.itunes # "none" THEN feed.itunes ELSE @,
              !.updated = "now"]

\* updatePodcast: UpdateOne({"_id": podcast.ID}, update) succeeds
UpdateOk(k) ==
    /\ pc[k] = "update"
    /\ podcasts' = {IF p.id = podcast[k].id THEN UpdatedPodcast(p, FeedOf(k)) ELSE p :
                        p \in podcasts}
    /\ pc' = [pc EXCEPT ![k] = "findEps"]
    /\ UNCHANGED <<slugs, expired, legacy, feeds, episodes, indices, sched, semaphore, locals, ret,
                   fetched, storeErr>>

\* what processFeed's result is after updatePodcast's UpdateOne failed:
\* updatePodcast logs the error and returns nothing, processFeed goes on
AfterUpdateError(k) == [r |-> ret[k], at |-> "findEps"]

\* updatePodcast: UpdateOne fails
UpdateFail(k) ==
    /\ pc[k] = "update"
    /\ storeErr' = [storeErr EXCEPT ![k] = TRUE]
    /\ ret' = [ret EXCEPT ![k] = AfterUpdateError(k).r]
    /\ pc' = [pc EXCEPT ![k] = AfterUpdateError(k).at]
    /\ UNCHANGED <<slugs, expired, legacy, feeds, store, indices, sched, semaphore, locals, fetched>>

\* processFeed: InsertOne(podcast) succeeds; the store assigns the _id
InsertOk(k) ==
    /\ pc[k] = "insert"
    /\ podcasts' = podcasts \cup {[podcast[k] EXCEPT !.id = ObjectID(k, 1)]}
    /\ pc' = [pc EXCEPT ![k] = "addFeed"]
    /\ UNCHANGED <<slugs, expired, legacy, feeds, episodes, indices, sched, semaphore, locals, ret,
                   fetched, storeErr>>

\* a processFeed that goes on to the two index writes after a failed InsertOne
AfterInsertErrorGoesOn == "addFeed"

\* where processFeed goes when InsertOne returned an error: it returns the error
AfterInsertError == "exit"

\* processFeed: InsertOne fails: the error is returned
InsertFail(k) ==
    /\ pc[k] = "insert"
    /\ storeErr' = [storeErr EXCEPT ![k] = TRUE]
    /\ ret' = [ret EXCEPT ![k] = "err"]
    /\ pc' = [pc EXCEPT ![k] = AfterInsertError]
    /\ UNCHANGED <<slugs, expired, legacy, feeds, store, indices, sched, semaphore, locals, fetched>>

\* processFeed: existingPodcastFeeds[feed.FeedLink] = true, the write begins
AddFeedBegin(k) ==
    /\ pc[k] = "addFeed"
    /\ pc' = [pc EXCEPT ![k] = "addFeedW"]
    /\ UNCHANGED <<slugs, expired, legacy, feeds, store, indices, sched, semaphore, locals, ret, fetched,
                   storeErr>>

\* processFeed: existingPodcastFeeds[feed.FeedLink] = true, the write is done
AddFeedEnd(k) ==
    /\ pc[k] = "addFeedW"
    /\ existingPodcastFeeds' = existingPodcastFeeds \cup {FeedOf(k).link}
    /\ pc' = [pc EXCEPT ![k] = "addTitle"]
    /\ UNCHANGED <<slugs, expired, legacy, feeds, store, podcastTitles, sched, semaphore, locals, ret,
                   fetched, storeErr>>

\* processFeed: podcastTitles[pTitleUrl] = true, the write begins
AddTitleBegin(k) ==
    /\ pc[k] = "addTitle"
    /\ pc' = [pc EXCEPT ![k] = "addTitleW"]
    /\ UNCHANGED <<slugs, expired, legacy, feeds, store, indices, sched, semaphore, locals, ret, fetched,
                   storeErr>>

\* processFeed: podcastTitles[pTitleUrl] = true, the write is done
AddTitleEnd(k) ==
    /\ pc[k] = "addTitleW"
    /\ podcastTitles' = podcastTitles \cup {slug[k]}
    /\ pc' = [pc EXCEPT ![k] = "findEps"]
    /\ UNCHANGED <<slugs, expired, legacy, feeds, store, existingPodcastFeeds, sched, semaphore, locals,
                   ret, fetched, storeErr>>

\* createEpisode: the Episode of item e of a feed of podcast p
createEpisode(e, p) ==
    [id |-> NoID, podcastUrl |-> p.podlistUrl, guid |-> e.guid,
     podlistUrl |-> GetTitleUrl(e.title, {}), title |-> e.title]

\* processEpisodes: the GUIDs of the stored episodes whose podcastUrl is url
ExistingEpisodes(url) == {e.guid : e \in {d \in episodes : d.podcastUrl = url}}

\* a loop that does not look the GUID up in existingEpisodes
TakesItemKnownOrNot(e, existingEpisodes) == e.ext

\* whether the loop of processEpisodes takes item e
TakesItem(e, existingEpisodes) == e.ext /\ e.guid \notin existingEpisodes

RECURSIVE NewEpisodes(_, _, _)
\* processEpisodes: the loop over feed.Items that builds newEpisodes
NewEpisodes(items, p, existingEpisodes) ==
    IF items = <<>> THEN <<>>
    ELSE IF TakesItem(Head(items), existingEpisodes)
         THEN <<createEpisode(Head(items), p)>> \o NewEpisodes(Tail(items), p, existingEpisodes)
         ELSE NewEpisodes(Tail(items), p, existingEpisodes)

\* processEpisodes: Find and cursor.All succeed; newEpisodes is built; with no
\* new episode processFeed returns nil
FindEpisodesOk(k) ==
    /\ pc[k] = "findEps"
    /\ LET new == NewEpisodes(FeedOf(k).items, podcast[k],
                              ExistingEpisodes(podcast[k].podlistUrl))
       IN  /\ newEpisodes' = [newEpisodes EXCEPT ![k] = new]
           /\ IF Len(new) > 0
              THEN /\ pc' = [pc EXCEPT ![k] = "bulk"]
                   /\ ret' = ret
              ELSE /\ pc' = [pc EXCEPT ![k] = "exit"]
                   /\ ret' = [ret EXCEPT ![k] = "nil"]
    /\ UNCHANGED <<slugs, expired, legacy, feeds, store, indices, sched, semaphore, slug, podcast,
                   fetched, storeErr>>

\* processEpisodes: Find or cursor.All fails: the error is returned
FindEpisodesFail(k) ==
    /\ pc[k] = "findEps"
    /\ storeErr' = [storeErr EXCEPT ![k] = TRUE]
    /\ ret' = [ret EXCEPT ![k] = "err"]
    /\ pc' = [pc EXCEPT ![k] = "exit"]
    /\ UNCHANGED <<slugs, expired, legacy, feeds, store, indices, sched, semaphore, locals, fetched>>

\* the documents the store holds for the first n inserts of goroutine k's
\* BulkWrite; the store assigns the _id
Inserted(k, n) == {[newEpisodes[k][m] EXCEPT !.id = ObjectID(k, m)] : m \in 1..n}

\* processEpisodes: BulkWrite of the inserts succeeds; processFeed returns nil
BulkWriteOk(k) ==
    /\ pc[k] = "bulk"
    /\ episodes' = episodes \cup Inserted(k, Len(newEpisodes[k]))
    /\ ret' = [ret EXCEPT ![k] = "nil"]
    /\ pc' = [pc EXCEPT ![k] = "exit"]
    /\ UNCHANGED <<slugs, expired, legacy, feeds, podcasts, indices, sched, semaphore, locals, fetched,
                   storeErr>>

\* processEpisodes: BulkWrite fails: an ordered bulk write stops at the first
\* insert that fails, the inserts before it stay; the error is returned
BulkWriteFail(k) ==
    /\ pc[k] = "bulk"
    /\ \E n \in 0..(Len(newEpisodes[k]) - 1) :
          episodes' = episodes \cup Inserted(k, n)
    /\ storeErr' = [storeErr EXCEPT ![k] = TRUE]
    /\ ret' = [ret EXCEPT ![k] = "err"]
    /\ pc' = [pc EXCEPT ![k] = "exit"]
    /\ UNCHANGED <<slugs, expired, legacy, feeds, podcasts, indices, sched, semaphore, locals, fetched>>

\* the deferred calls of the goroutine: <-semaphore, then wg.Done()
Exit(k) ==
    /\ pc[k] = "exit"
    /\ semaphore' = semaphore - 1
    /\ wg' = wg - 1
    /\ pc' = [pc EXCEPT ![k] = "done"]
    /\ slug' = [slug EXCEPT ![k] = <<>>]
    /\ podcast' = [podcast EXCEPT ![k] = NoPodcast]
    /\ newEpisodes' = [newEpisodes EXCEPT ![k] = <<>>]
    /\ UNCHANGED <<slugs, expired, legacy, feeds, store, indices, mainpc, lo, nxt, ret, fetched, storeErr>>

\* goroutine k is about to read or write an index another goroutine is writing
RacingAccess(k) ==
    \/ pc[k] \in {"title", "addTitle"} /\ TitleWriters(k) # {}
    \/ pc[k] \in {"check", "addFeed"} /\ FeedWriters(k) # {}

\* the maps are shared without a lock: an access during another goroutine's
\* write is a data race, which the runtime may end with "fatal error:
\* concurrent map read and map write" / "concurrent map writes"
Crash ==
    /\ \E k \in Pos : RacingAccess(k)
    /\ mainpc' = "crashed"
    /\ pc' = [k \in Pos |-> "killed"]
    /\ UNCHANGED <<slugs, expired, legacy, feeds, store, indices, lo, nxt, wg, semaphore, locals, ret,
                   fetched, storeErr>>

Next ==
    \/ LoadExistingPodcasts
    \/ LoadExistingPodcastsFails
    \/ BatchStart
    \/ Launch
    \/ Wait
    \/ Sleep
    \/ Crash
    \/ \E k \in Pos : Acquire(k)
    \/ \E k \in Pos : FetchOk(k)
    \/ \E k \in Pos : FetchFail(k)
    \/ \E k \in Pos : TitleLoop(k)
    \/ \E k \in Pos : CheckFeed(k)
    \/ \E k \in Pos : FindOneOk(k)
    \/ \E k \in Pos : FindOneFail(k)
    \/ \E k \in Pos : UpdateOk(k)
    \/ \E k \in Pos : UpdateFail(k)
    \/ \E k \in Pos : InsertOk(k)
    \/ \E k \in Pos : InsertFail(k)
    \/ \E k \in Pos : AddFeedBegin(k)
    \/ \E k \in Pos : AddFeedEnd(k)
    \/ \E k \in Pos : AddTitleBegin(k)
    \/ \E k \in Pos : AddTitleEnd(k)
    \/ \E k \in Pos : FindEpisodesOk(k)
    \/ \E k \in Pos : FindEpisodesFail(k)
    \/ \E k \in Pos : BulkWriteOk(k)
    \/ \E k \in Pos : BulkWriteFail(k)
    \/ \E k \in Pos : Exit(k)

Spec == Init /\ [][Next]_vars

(***************************************************************************)
(* The run under a fair scheduler: main goes on whenever it can, and so    *)
(* does every goroutine (its send on the semaphore goes through when there *)
(* is room, its fetch and its store calls return, its deferred calls run). *)
(* Nothing makes the runtime notice a racing map access, and nothing       *)
(* keeps it from doing so.                                                 *)
(***************************************************************************)
\* a step of main
MainStep ==
    \/ LoadExistingPodcasts
    \/ LoadExistingPodcastsFails
    \/ BatchStart
    \/ Launch
    \/ Wait
    \/ Sleep

\* a step of the goroutine of list position k
Task(k) ==
    /\ k \in Pos
    /\ \/ Acquire(k)
       \/ FetchFail(k)
       \/ FetchOk(k)
       \/ TitleLoop(k)
       \/ CheckFeed(k)
       \/ FindOneOk(k)
       \/ FindOneFail(k)
       \/ UpdateOk(k)
       \/ UpdateFail(k)
       \/ InsertOk(k)
       \/ InsertFail(k)
       \/ AddFeedBegin(k)
       \/ AddFeedEnd(k)
       \/ AddTitleBegin(k)
       \/ AddTitleEnd(k)
       \/ FindEpisodesFail(k)
       \/ FindEpisodesOk(k)
       \/ BulkWriteOk(k)
       \/ BulkWriteFail(k)
       \/ Exit(k)

\* a step of main or of a goroutine. No step leads back to a state the run
\* has been in, so a run in which such a step is taken whenever one stays
\* possible is a run in which main and every goroutine go on
Progress ==
    \/ MainStep
    \/ \E k \in Pos : Task(k)

Fairness == WF_vars(Progress)

SpecFair == Spec /\ Fairness

(***************************************************************************)
(* The run with its deadline: main's ctx is context.WithTimeout(600 s). It *)
(* is handed to loadExistingPodcasts and down to processFeedURL, which     *)
(* replaces it by a context of its own made from context.Background().     *)
(***************************************************************************)
\* the 600 s of main's ctx pass while the process runs
DeadlineExpires ==
    /\ ~expired
    /\ mainpc \notin {"done", "fatal", "crashed"}
    /\ expired' = TRUE
    /\ UNCHANGED <<slugs, legacy, feeds, store, indices, sched, semaphore, pc, locals,
                   ret, fetched, storeErr>>

NextDeadline ==
    \/ Next
    \/ DeadlineExpires

SpecDeadline == Init /\ [][NextDeadline]_vars

(***************************************************************************)
(* The one-shot import (the second main of src/main.go, lines 539-649):    *)
(* one goroutine per URL runs LoadFeed and sends the feed, or nil, on the  *)
(* unbuffered channel cf; main receives len(feeds) values, builds the      *)
(* podcasts and episodes slices and, at the end, drops both collections    *)
(* and writes the slices with InsertMany.                                  *)
(***************************************************************************)
\* what the one-shot import leaves alone
pipeline == <<existingPodcastFeeds, lo, wg, semaphore, locals, ret>>

\* TitleExist: whether str is in arr; podcastTitles and episodeTitles are only
\* appended to and searched, a set stands for the slice
TitleExist(arr, str) == str \in arr

RECURSIVE GetTitleUrlExtra(_, _, _)
\* GetTitleUrl of the one-shot import: the slug of title + extra; when it is
\* taken, the slug itself goes through GetTitleUrl again with extra "x"
GetTitleUrlExtra(title, otherPodcasts, extra) ==
    LET t == TitleUrl(title \o extra)
    IN  IF TitleExist(otherPodcasts, t)
        THEN GetTitleUrlExtra(t, otherPodcasts, <<"x">>)
        ELSE t

RECURSIVE EpisodesOfFeed(_, _, _)
\* main: the loop over f.Items; it is left by break at the first item whose
\* ITunesExt is nil
EpisodesOfFeed(items, p, episodeTitles) ==
    IF items = <<>> \/ ~Head(items).ext
    THEN <<>>
    ELSE LET e == Head(items)
             episode == [id |-> NoID, podcastUrl |-> p.podlistUrl, guid |-> e.guid,
                         podlistUrl |-> GetTitleUrlExtra(e.title, episodeTitles, <<>>),
                         title |-> e.title]
         IN  <<episode>> \o
             EpisodesOfFeed(Tail(items), p, episodeTitles \cup {episode.podlistUrl})

\* InsertMany: the first n documents of list, with the _ids the driver gives
InsertedMany(list, n) == {[list[m] EXCEPT !.id = ObjectID(0, m)] : m \in 1..n}

InitLegacy ==
    /\ feeds \in ShortLists
    /\ \/ podcasts = {} /\ episodes = {}
       \/ podcasts = {StoredPodcast} /\ episodes = {StoredEpisode}
    /\ existingPodcastFeeds = {}
    /\ podcastTitles = {}
    /\ mainpc = "go"
    /\ lo = 0
    /\ nxt = 0
    /\ wg = 0
    /\ semaphore = 0
    /\ pc = [k \in DOMAIN feeds |-> "idle"]
    /\ slug = [k \in DOMAIN feeds |-> <<>>]
    /\ podcast = [k \in DOMAIN feeds |-> NoPodcast]
    /\ newEpisodes = [k \in DOMAIN feeds |-> <<>>]
    /\ ret = [k \in DOMAIN feeds |-> "none"]
    /\ fetched = [k \in DOMAIN feeds |-> "no"]
    /\ storeErr = [k \in DOMAIN feeds |-> FALSE]
    /\ podcastList = <<>>
    /\ episodeList = <<>>
    /\ received = 0
    /\ expired = FALSE
    /\ callTitle = <<>>
    /\ version = "map"
    /\ usedSlugs = {}
    /\ chain = <<>>

\* main: go LoadFeed(feeds[i], cf), for every i before the first receive
GoLoadFeed ==
    /\ mainpc = "go"
    /\ nxt < Len(feeds)
    /\ nxt' = nxt + 1
    /\ pc' = [pc EXCEPT ![nxt + 1] = "loading"]
    /\ mainpc' = IF nxt + 1 = Len(feeds) THEN "recv" ELSE "go"
    /\ UNCHANGED <<slugs, expired, feeds, store, podcastTitles, pipeline, fetched, storeErr, legacy>>

\* LoadFeed: the parse succeeds, the goroutine blocks in c <- feed
ParsedOk(k) ==
    /\ pc[k] = "loading"
    /\ feeds[k] \in LiveURLs
    /\ fetched' = [fetched EXCEPT ![k] = "ok"]
    /\ pc' = [pc EXCEPT ![k] = "sending"]
    /\ UNCHANGED <<slugs, expired, feeds, store, podcastTitles, pipeline, mainpc, nxt, storeErr, legacy>>

\* LoadFeed: the parse fails, the goroutine blocks in c <- nil
ParseFails(k) ==
    /\ pc[k] = "loading"
    /\ fetched' = [fetched EXCEPT ![k] = "fail"]
    /\ pc' = [pc EXCEPT ![k] = "sending"]
    /\ UNCHANGED <<slugs, expired, feeds, store, podcastTitles, pipeline, mainpc, nxt, storeErr, legacy>>

\* where main goes after the receive that made the count n
AfterReceive(n) == IF n = Len(feeds) THEN "dropPodcasts" ELSE "recv"

\* main: f := <-cf takes the value of goroutine k; a nil is passed over, a feed
\* gives one podcast, slug GetTitleUrl(f.Title, podcastTitles, ""), and the
\* episodes of its items up to the break
Receive(k) ==
    /\ mainpc = "recv"
    /\ received < Len(feeds)
    /\ pc[k] = "sending"
    /\ fetched[k] = "ok" => FeedOf(k).itunes # "none"
    /\ pc' = [pc EXCEPT ![k] = "sent"]
    /\ received' = received + 1
    /\ mainpc' = AfterReceive(received + 1)
    /\ IF fetched[k] = "fail"
       THEN UNCHANGED <<podcastList, episodeList, podcastTitles>>
       ELSE LET f == FeedOf(k)
                p == createNewPodcast(f, GetTitleUrlExtra(f.title, podcastTitles, <<>>))
            IN  /\ podcastList' = Append(podcastList, p)
                /\ podcastTitles' = podcastTitles \cup {p.podlistUrl}
                /\ episodeList' = episodeList \o EpisodesOfFeed(f.items, p, {})
    /\ UNCHANGED <<slugs, expired, feeds, store, pipeline, nxt, fetched, storeErr>>

\* main: the feed received has no iTunes extension, f.ITunesExt.Owner
\* dereferences nil and the process ends in a panic
ReceivePanics(k) ==
    /\ mainpc = "recv"
    /\ received < Len(feeds)
    /\ pc[k] = "sending"
    /\ fetched[k] = "ok"
    /\ FeedOf(k).itunes = "none"
    /\ mainpc' = "crashed"
    /\ pc' = [j \in Pos |-> "killed"]
    /\ UNCHANGED <<slugs, expired, feeds, store, podcastTitles, pipeline, nxt, fetched, storeErr, legacy>>

\* main: podcastsCollection.Drop(ctx); its error is not looked at
DropPodcasts ==
    /\ mainpc = "dropPodcasts"
    /\ \/ podcasts' = {}
       \/ podcasts' = podcasts
    /\ mainpc' = "insertPodcasts"
    /\ UNCHANGED <<slugs, expired, feeds, episodes, podcastTitles, pipeline, nxt, pc, fetched, storeErr,
                   legacy>>

\* main: InsertMany(ctx, podcasts) returns a result: every document was written,
\* or (an ordered insert that stopped at an error, which main drops) a prefix
InsertManyPodcasts ==
    /\ mainpc = "insertPodcasts"
    /\ podcastList # <<>>
    /\ \E n \in 0..Len(podcastList) :
          /\ podcasts' = podcasts \cup InsertedMany(podcastList, n)
          /\ storeErr' = [k \in Pos |-> storeErr[k] \/ n < Len(podcastList)]
    /\ mainpc' = "dropEpisodes"
    /\ UNCHANGED <<slugs, expired, feeds, episodes, podcastTitles, pipeline, nxt, pc, fetched, legacy>>

\* main: episodesCollection.Drop(ctx)
DropEpisodes ==
    /\ mainpc = "dropEpisodes"
    /\ \/ episodes' = {}
       \/ episodes' = episodes
    /\ mainpc' = "insertEpisodes"
    /\ UNCHANGED <<slugs, expired, feeds, podcasts, podcastTitles, pipeline, nxt, pc, fetched, storeErr,
                   legacy>>

\* main: InsertMany(ctx, episodes) returns a result
InsertManyEpisodes ==
    /\ mainpc = "insertEpisodes"
    /\ episodeList # <<>>
    /\ \E n \in 0..Len(episodeList) :
          /\ episodes' = episodes \cup InsertedMany(episodeList, n)
          /\ storeErr' = [k \in Pos |-> storeErr[k] \/ n < Len(episodeList)]
    /\ mainpc' = "done"
    /\ UNCHANGED <<slugs, expired, feeds, podcasts, podcastTitles, pipeline, nxt, pc, fetched, legacy>>

\* main: InsertMany returns a nil result (an empty slice, or an error of the
\* connection) and len(pInsertResult.InsertedIDs) dereferences it
InsertManyPanics ==
    /\ mainpc \in {"insertPodcasts", "insertEpisodes"}
    /\ mainpc' = "crashed"
    /\ pc' = [j \in Pos |-> "killed"]
    /\ UNCHANGED <<slugs, expired, feeds, store, podcastTitles, pipeline, nxt, fetched, storeErr, legacy>>

NextLegacy ==
    \/ GoLoadFeed
    \/ DropPodcasts
    \/ InsertManyPodcasts
    \/ DropEpisodes
    \/ InsertManyEpisodes
    \/ InsertManyPanics
    \/ \E k \in Pos : ParsedOk(k)
    \/ \E k \in Pos : ParseFails(k)
    \/ \E k \in Pos : Receive(k)
    \/ \E k \in Pos : ReceivePanics(k)

SpecLegacy == InitLegacy /\ [][NextLegacy]_vars

(***************************************************************************)
(* The slug generator alone: GetTitleUrl is called again and again with    *)
(* one title, each result going into otherPodcasts before the next call    *)
(* (processFeed: podcastTitles[pTitleUrl] = true; the one-shot import:     *)
(* podcastTitles = append(podcastTitles, podcast.PodlistUrl)). The title   *)
(* and the slugs otherPodcasts holds before the first call are inputs.     *)
(***************************************************************************)
\* the titles the calls are made with: the empty title, punctuation only, a
\* title with a space (its slug has a hyphen), and titles without one
Titles == {<<>>, <<"!">>, <<"A", " ", "b">>, <<"a", "b">>, News, MyShow}

\* n times "x"
Xs(n) == [m \in 1..n |-> "x"]

\* the slugs otherPodcasts may hold before the first call with title t
SlugPool(t) ==
    {TitleUrl(t) \o Xs(n) : n \in 0..2} \cup {TitleUrl(TitleUrl(t) \o Xs(n)) : n \in 1..2}

RECURSIVE AppendXCount(_, _)
\* the loop of GetTitleUrl: how many times t += "x" runs
AppendXCount(t, otherPodcasts) ==
    IF t \in otherPodcasts THEN 1 + AppendXCount(Append(t, "x"), otherPodcasts) ELSE 0

RECURSIVE GetTitleUrlExtraCalls(_, _, _)
\* GetTitleUrl of the one-shot import: how many times it calls itself, each
\* call appending the extra "x"
GetTitleUrlExtraCalls(title, otherPodcasts, extra) ==
    LET t == TitleUrl(title \o extra)
    IN  IF TitleExist(otherPodcasts, t)
        THEN 1 + GetTitleUrlExtraCalls(t, otherPodcasts, <<"x">>)
        ELSE 0

InitSlug ==
    /\ callTitle \in Titles
    /\ version \in {"map", "slice"}
    /\ usedSlugs \in SUBSET SlugPool(callTitle)
    /\ chain = <<>>
    /\ feeds = <<"a">>
    /\ podcasts = {}
    /\ episodes = {}
    /\ existingPodcastFeeds = {}
    /\ podcastTitles = {}
    /\ mainpc = "slug"
    /\ lo = 0
    /\ nxt = 0
    /\ wg = 0
    /\ semaphore = 0
    /\ pc = [k \in DOMAIN feeds |-> "idle"]
    /\ slug = [k \in DOMAIN feeds |-> <<>>]
    /\ podcast = [k \in DOMAIN feeds |-> NoPodcast]
    /\ newEpisodes = [k \in DOMAIN feeds |-> <<>>]
    /\ ret = [k \in DOMAIN feeds |-> "none"]
    /\ fetched = [k \in DOMAIN feeds |-> "no"]
    /\ storeErr = [k \in DOMAIN feeds |-> FALSE]
    /\ podcastList = <<>>
    /\ episodeList = <<>>
    /\ received = 0
    /\ expired = FALSE

\* a call of GetTitleUrl(title, otherPodcasts) of lines 92-98; the caller adds
\* the result to the map
CallGetTitleUrl ==
    /\ version = "map"
    /\ Len(chain) < MaxCalls
    /\ LET t == GetTitleUrl(callTitle, usedSlugs)
       IN  /\ chain' = Append(chain, t)
           /\ usedSlugs' = usedSlugs \cup {t}
    /\ UNCHANGED <<callTitle, version, expired, legacy, feeds, store, indices, sched,
                   semaphore, pc, locals, ret, fetched, storeErr>>

\* a call of GetTitleUrl(title, otherPodcasts, "") of lines 506-513; the caller
\* appends the result to the slice
CallGetTitleUrlExtra ==
    /\ version = "slice"
    /\ Len(chain) < MaxCalls
    /\ LET t == GetTitleUrlExtra(callTitle, usedSlugs, <<>>)
       IN  /\ chain' = Append(chain, t)
           /\ usedSlugs' = usedSlugs \cup {t}
    /\ UNCHANGED <<callTitle, version, expired, legacy, feeds, store, indices, sched,
                   semaphore, pc, locals, ret, fetched, storeErr>>

NextSlug ==
    \/ CallGetTitleUrl
    \/ CallGetTitleUrlExtra

SpecSlug == InitSlug /\ [][NextSlug]_vars

(***************************************************************************)
(* Properties.                                                             *)
(***************************************************************************)
\* the goroutines between their send on the semaphore and their receive from it
Holding == {k \in Pos : pc[k] \notin {"idle", "acquire", "done", "killed"}}

\* the slice (0, 1, ...) list position k belongs to
BatchOf(k) == (k - 1) \div batchSize

\* C1: after a run no two Podcast records of the store share a feed URL
C1_UniqueFeedUrl ==
    mainpc = "done" =>
        \A p, q \in podcasts : p # q => p.feed # q.feed

\* C2: after a run no two Podcast records of the store share a slug (podlistUrl),
\* here for the records of two distinct feeds (same title, different feed URL)
C2_UniqueSlug ==
    mainpc = "done" =>
        \A p, q \in podcasts : p.feed # q.feed => p.podlistUrl # q.podlistUrl

\* C3: after a run no two Episode records with the same podcast slug share a GUID
C3_UniqueEpisodeGuid ==
    mainpc = "done" =>
        \A d, e \in episodes : (d # e /\ d.podcastUrl = e.podcastUrl) => d.guid # e.guid

\* C4: at most 3 goroutines are between acquiring and releasing the limiter, the
\* tokens in the semaphore are exactly those goroutines' (every exit path gives
\* its token back), so no token is left when the slice is done
C4_AtMostThreeInFlight ==
    /\ Cardinality(Holding) <= 3
    /\ mainpc # "crashed" => semaphore = Cardinality(Holding)
    /\ mainpc = "sleep" => semaphore = 0

\* C4: three goroutines hold the limiter, another one waits for it, and one has
\* given its token back after its fetch failed
C4_Witness ==
    /\ Cardinality(Holding) = 3
    /\ \E k \in Pos : pc[k] = "acquire"
    /\ \E k \in Pos : pc[k] = "done" /\ fetched[k] = "fail"

\* C5: a goroutine of a later slice has started only if every goroutine of every
\* earlier slice is done
C5_BatchesDoNotOverlap ==
    \A k1, k2 \in Pos :
        (BatchOf(k1) < BatchOf(k2) /\ pc[k2] \notin {"idle", "killed"})
            => pc[k1] = "done"

\* C5: a goroutine of the second slice is about to write to the store
C5_Witness ==
    \E k \in Pos : BatchOf(k) = 1 /\ pc[k] = "insert"

\* goroutine k has found its feed URL absent from the index and has not added it yet
InFeedWindow(k) == pc[k] \in {"insert", "addFeed", "addFeedW"}

\* C6: no goroutine accesses an index while another one writes it, and no two
\* goroutines are between the check of the same feed URL and its addition
C6_IndexAccessSerialized ==
    /\ \A k \in Pos : ~RacingAccess(k)
    /\ \A k1, k2 \in Pos :
          (k1 # k2 /\ InFeedWindow(k1) /\ InFeedWindow(k2))
              => FeedOf(k1).link # FeedOf(k2).link

\* whether document d is the episode of an extension-carrying item of a feed
\* of the run
OfExtensionItem(d) ==
    \E k \in {j \in Pos : feeds[j] \in LiveURLs} : \E n \in DOMAIN FeedOf(k).items :
        LET e == FeedOf(k).items[n]
        IN  e.ext /\ e.guid = d.guid /\ e.title = d.title

\* C7: no episode written by the run comes from an item without the iTunes
\* extension, and such an item does not end the feed: when the run is over,
\* every extension-carrying item of a feed that was fetched, and that no store
\* error came between, has its GUID in the episodes collection
C7_ItemsWithoutExtensionSkipped ==
    /\ \A d \in OfThisRun(episodes) : OfExtensionItem(d)
    /\ mainpc = "done" =>
          \A k \in Pos :
              (fetched[k] = "ok" /\ ~storeErr[k]) =>
                  \A n \in DOMAIN FeedOf(k).items :
                      FeedOf(k).items[n].ext =>
                          \E d \in episodes : d.guid = FeedOf(k).items[n].guid

\* C9: a failed LoadFeed changes neither the store nor the indices, the goroutine
\* only returns (no processFeed, no store operation), and when the run is over
\* the goroutine of every list position is done
C9_FetchFailureIsSkipped ==
    [][/\ \A k \in Pos :
             (pc[k] = "fetch" /\ fetched'[k] = "fail")
                 => /\ UNCHANGED <<store, indices>>
                    /\ pc'[k] = "exit"
       /\ \A k \in Pos :
             fetched'[k] = "fail"
                 => /\ pc'[k] \in {"exit", "done", "killed"}
                    /\ ret'[k] = "none"
                    /\ ~storeErr'[k]
       /\ mainpc' = "done" => \A k \in Pos : pc'[k] = "done"]_vars

\* C9: the run is over; every fetch of the first slice failed and the URL of the
\* second slice was fetched and reconciled
C9_Witness ==
    /\ mainpc = "done"
    /\ Len(feeds) > batchSize
    /\ \A k \in Pos : BatchOf(k) = 0 => fetched[k] = "fail"
    /\ ret[Len(feeds)] = "nil"
    /\ Cardinality(podcasts) = 1

\* C10: a goroutine one of whose store operations failed has processFeed return
\* an error
C10_StoreFailureReported ==
    \A k \in Pos : (storeErr[k] /\ pc[k] \in {"exit", "done"}) => ret[k] = "err"

\* the GUIDs, in feed order, of the items that carry the extension and whose
\* GUID is not in known
ExpectedGuids(items, known) ==
    LET sel == SelectSeq(items, LAMBDA e : e.ext /\ e.guid \notin known)
    IN  [n \in DOMAIN sel |-> sel[n].guid]

\* the GUIDs of the episodes goroutine k inserted, in the order of its BulkWrite
InsertedGuids(k) ==
    LET mine == {e \in episodes : e.id[1] = 1 /\ e.id[2] = k}
    IN  [n \in 1..Cardinality(mine) |-> (CHOOSE e \in mine : e.id[3] = n).guid]

\* C8: a run of one URL whose fetch and store operations succeed. With the
\* feed's self-link in the index (the store holds its podcast), no podcast is
\* inserted, the stored one is updated and keeps title, slug and feed URL, and
\* the episodes inserted are the extension-carrying items whose GUID was not
\* stored; with an empty store one podcast is inserted with slug TitleUrl(title)
\* ("My Show" gives "my-show") and one episode per extension-carrying item
C8_ReconcileOneFeed ==
    (Len(feeds) = 1 /\ mainpc = "done" /\ ret[1] = "nil" /\ ~storeErr[1]) =>
        LET f == FeedOf(1)
            earlier == podcasts \ OfThisRun(podcasts)
        IN  IF \E p \in earlier : p.feed = f.link
            THEN /\ podcasts = {[StoredPodcast EXCEPT
                                    !.desc = f.desc,
                                    !.itunes = IF f.itunes = "none" THEN @ ELSE f.itunes,
                                    !.updated = "now"]}
                 /\ episodes \ OfThisRun(episodes) = {StoredEpisode}
                 /\ InsertedGuids(1) = ExpectedGuids(f.items, {StoredEpisode.guid})
                 /\ \A e \in episodes : e.podcastUrl = StoredPodcast.podlistUrl
            ELSE IF earlier = {}
                 THEN /\ Cardinality(podcasts) = 1
                      /\ \A p \in podcasts :
                            /\ p.feed = f.link
                            /\ p.title = f.title
                            /\ p.podlistUrl = TitleUrl(f.title)
                            /\ f.title = MyShow
                                  => p.podlistUrl = <<"m","y","-","s","h","o","w">>
                      /\ InsertedGuids(1) = ExpectedGuids(f.items, {})
                      /\ Cardinality(episodes) = Len(InsertedGuids(1))
                      /\ \A e \in episodes : e.podcastUrl = TitleUrl(f.title)
                 ELSE TRUE

\* C8: the run of URL "a" against the store that holds its podcast and episode
\* g1 is over: the podcast was updated and g2 alone was inserted
C8_Witness ==
    /\ feeds = <<"a">>
    /\ mainpc = "done"
    /\ ret[1] = "nil"
    /\ ~storeErr[1]
    /\ \E p \in podcasts : p.id = StoredPodcast.id /\ p.updated = "now"
    /\ {e.guid : e \in episodes} = {"g1", "g2"}
    /\ Cardinality(episodes) = 2

\* C11: TitleUrl is idempotent on its own outputs: the slug of the slug of a
\* title is the slug of the title, also when the slug holds a hyphen
C11_SlugifyIdempotent == TitleUrl(TitleUrl(callTitle)) = TitleUrl(callTitle)

\* how many times the call that is made in this state appends "x"
Appended ==
    IF version = "map"
    THEN AppendXCount(TitleUrl(callTitle), usedSlugs)
    ELSE GetTitleUrlExtraCalls(callTitle, usedSlugs, <<>>)

\* C12: a call of GetTitleUrl returns; what it returns is not in otherPodcasts,
\* and it has appended "x" at most as many times as otherPodcasts has members
\* (with the map the result is the slug of the title followed by that many "x")
C12_UniqueSlugIsFresh ==
    [][chain' # chain =>
          /\ chain'[Len(chain')] \notin usedSlugs
          /\ Appended <= Cardinality(usedSlugs)
          /\ version = "map" =>
                chain'[Len(chain')] = TitleUrl(callTitle) \o Xs(Appended)]_vars

\* C12: a call has returned the slug of the title followed by "xx", the slug
\* and the slug followed by "x" being taken
C12_Witness ==
    /\ Len(chain) = 1
    /\ TitleUrl(callTitle) # <<>>
    /\ chain[1] = TitleUrl(callTitle) \o Xs(2)
    /\ usedSlugs = {TitleUrl(callTitle) \o Xs(n) : n \in 0..2}

\* C13: with otherPodcasts empty before the first call, the k-th call with one
\* title returns the slug of the title followed by k-1 "x": "", "x", "xx" for a
\* title whose slug is empty, "a-b", "a-bx", "a-bxx" for the title "A b"
C13_SuffixChain ==
    usedSlugs = Range(chain) =>
        \A k \in DOMAIN chain : chain[k] = TitleUrl(callTitle) \o Xs(k - 1)

\* C14: no two episodes of one podcast have the same episode slug: two items
\* of a feed with one title are stored under different slugs
C14_UniqueEpisodeSlug ==
    \A d \in episodes : \A e \in episodes :
        (d # e /\ d.podcastUrl = e.podcastUrl) => d.podlistUrl # e.podlistUrl

\* C15: once the deadline of the run has passed no store write is issued: the
\* two collections stay as they are
C15_DeadlineStopsWrites == [][expired => store' = store]_vars

\* the list positions whose goroutine has been started
Started == {k \in Pos : pc[k] # "idle"}

\* C16: the slices are the runs of batchSize consecutive list positions (the last
\* one may be shorter), taken in list order: a goroutine is started for the
\* first position that has none, inside the slice of i; a position that has one
\* never gets a second, whatever became of the first; when wg.Wait() returns
\* exactly the positions up to the end of the slice have been started, and at
\* the end of the run every position has had its goroutine
C16_SlicesCoverTheList ==
    [][/\ wg' = wg + 1 =>
             \E k \in Pos :
                 /\ pc[k] = "idle" /\ pc'[k] = "acquire"
                 /\ Started = 1..(k - 1)
                 /\ \A j \in Pos \ {k} : pc'[j] = pc[j]
                 /\ lo < k /\ k <= lo + batchSize
       /\ \A k \in Started : pc'[k] # "idle" /\ (pc'[k] = "acquire" => pc[k] = "acquire")
       /\ (mainpc = "batch" /\ mainpc' = "sleep") =>
             /\ lo % batchSize = 0
             /\ Started = {k \in Pos : k <= lo + batchSize}
       /\ mainpc' = "done" => \A k \in Pos : pc'[k] = "done"]_vars

\* C16: the run of a list of more than batchSize URLs is over, both slices were
\* processed and the fetch of the last URL failed
C16_Witness ==
    /\ mainpc = "done"
    /\ Len(feeds) > batchSize
    /\ lo = 2 * batchSize
    /\ \A k \in Pos : pc[k] = "done"
    /\ fetched[Len(feeds)] = "fail"

\* C17: a step changes no stored podcast's title, slug or feed URL: a podcast
\* of the store is, after the step, the same document but for its description
\* fields (categories, link, description), its iTunes fields (subtitle, author,
\* image) and its updated timestamp
C17_UpdateKeepsIdentity ==
    [][\A p \in podcasts : \A q \in podcasts' :
           q.id = p.id =>
               [q EXCEPT !.desc = p.desc, !.itunes = p.itunes, !.updated = p.updated] = p]_vars

\* C17: the stored podcast "News" has been updated from feed b, whose title is
\* "My Show" and for which processFeed computed the slug "my-show"
C17_Witness ==
    \E k \in Pos :
        /\ feeds[k] = "b"
        /\ pc[k] = "findEps"
        /\ slug[k] = TitleUrl(MyShow)
        /\ \E p \in podcasts :
              /\ p.id = StoredPodcast.id
              /\ p.desc = "d2"
              /\ p.updated = "now"
              /\ p.title = News

\* C18: a step deletes no podcast and neither deletes nor changes an episode:
\* every podcast of the store is in the store after the step, and every
\* episode is in it with the fields it had
C18_NothingDeleted ==
    [][/\ \A p \in podcasts : \E q \in podcasts' : q.id = p.id
       /\ episodes \subseteq episodes']_vars

\* the self-link a fetch of URL u is to give: the parsed one, or u when the
\* parsed feed has none
SelfLink(u) == IF ParsedFeed(u).link # "" THEN ParsedFeed(u).link ELSE u

\* C19: the feed a goroutine holds after its fetch succeeded has the self-link
\* the feed was parsed with, or the URL when it was parsed with none; the
\* self-link is never empty, neither in the feed-URL index nor in the podcast
\* the goroutine inserts
C19_SelfLinkSubstituted ==
    /\ \A k \in Pos :
          fetched[k] = "ok" =>
              FeedOf(k).link = SelfLink(feeds[k]) /\ FeedOf(k).link # ""
    /\ \A p \in OfThisRun(podcasts) : p.feed = SelfLink(feeds[p.id[2]])
    /\ "" \notin existingPodcastFeeds

\* C19: feed a, parsed without a self-link, was inserted under its URL, and
\* feed c under the self-link it carries
C19_Witness ==
    /\ ParsedFeed("a").link = ""
    /\ \E p \in OfThisRun(podcasts) : feeds[p.id[2]] = "a" /\ p.feed = "a"
    /\ \E p \in OfThisRun(podcasts) : feeds[p.id[2]] = "c" /\ p.feed = ParsedFeed("c").link
    /\ existingPodcastFeeds = {"a", "c"}

\* C20: once a slice has gone to processBatch, the run gets to the end of the
\* URL list: every goroutine that was started takes a token, gives it back and
\* calls wg.Done(), wg.Wait() returns for every slice, and main leaves the loop
C20_EveryBatchTerminates ==
    (mainpc = "batch") ~>
        (mainpc = "done" /\ semaphore = 0 /\ \A k \in Pos : pc[k] = "done")

\* C21: after every step each feed URL of the feed-URL index and each slug of
\* the slug index is the feed URL, the slug, of a podcast of the store; and a
\* step that changes an index (but for loadExistingPodcasts) is the step of a
\* goroutine whose InsertOne succeeded and adds the feed URL or the slug of the
\* podcast it inserted: a goroutine whose InsertOne failed, or that updated a
\* stored podcast, adds nothing
C21_IndicesWithinStore ==
    [][/\ existingPodcastFeeds' \subseteq {p.feed : p \in podcasts'}
       /\ podcastTitles' \subseteq {p.podlistUrl : p \in podcasts'}
       /\ (indices' # indices /\ mainpc # "load") =>
             \E k \in Pos : \E p \in OfThisRun(podcasts) :
                 /\ p.id[2] = k
                 /\ pc[k] \in {"addFeedW", "addTitleW"}
                 /\ pc'[k] # pc[k]
                 /\ existingPodcastFeeds' \subseteq existingPodcastFeeds \cup {p.feed}
                 /\ podcastTitles' \subseteq podcastTitles \cup {p.podlistUrl}]_vars

\* C21: of the feeds a and c, a was inserted and entered both indices, and the
\* InsertOne of c failed: c is neither in the store nor in an index
C21_Witness ==
    /\ feeds = <<"a", "c">>
    /\ pc[2] = "done" /\ ret[2] = "err"
    /\ \A p \in podcasts : p.feed # "c"
    /\ \E p \in OfThisRun(podcasts) : p.feed = "a"
    /\ existingPodcastFeeds = {"a"}
    /\ podcastTitles = {TitleUrl(News)}

====
